---- MODULE Spec2Model ----
(***************************************************************************)
(* ReliableStockLoader (src/reliable_stock_loader.py): the sector lookup,  *)
(* the per-ticker summary (get_stock_info) and the sequential batch loop   *)
(* (load_multiple_stocks).                                                 *)
(*                                                                         *)
(* Exceptions are explicit: every function body evaluates to an outcome    *)
(* [raised, value]; a try/except turns a raised outcome into the handler's *)
(* return value, anything else propagates to the caller.                   *)
(*                                                                         *)
(* Floats are exact rationals [num, den]; den = 0 is NaN (a JSON null in a *)
(* numeric DataFrame column).  Rounding of float64 is not modelled.        *)
(* A DataFrame is the sequence of its rows; only the Close and Volume      *)
(* columns are kept, the loader reads no other column.                     *)
(***************************************************************************)
EXTENDS Integers, Sequences, FiniteSets, TLC

VARIABLES
    file,              \* environment: what is on disk at sector_db_path
    phase,             \* "new" | "ready" | "ctor_failed" (__init__ raised)
    sector_database,   \* self.sector_database
    cache,             \* self.cache
    pc,                \* "idle" | "loop" | "summarize" | "sleep"
    tickers,           \* load_multiple_stocks: argument
    progress_callback, \* load_multiple_stocks: TRUE iff a callback was supplied
    i,                 \* load_multiple_stocks: loop index (0-based)
    results,           \* load_multiple_stocks: local list
    call,              \* the public method last called, and its ticker
    ret,               \* value returned by the last completed call
    hist_df,           \* observation: hist_df inside the last get_stock_info run
    events,            \* observation: progress / summarize / delay events of the batch
    progress_calls,    \* observation: argument tuples the callback received
    outcomes           \* observation: get_stock_info's result per batch position

vars == <<file, phase, sector_database, cache, pc, tickers, progress_callback, i,
          results, call, ret, hist_df, events, progress_calls, outcomes>>

loader == <<sector_database, cache>>
batch == <<pc, tickers, progress_callback, i, results>>
logs == <<events, progress_calls, outcomes>>

-----------------------------------------------------------------------------
(* Bounds *)

MaxTickers == 3
MaxBars == 51

(* Window sizes of the two moving averages *)
Ma20Window == 20
Ma50Window == 50

-----------------------------------------------------------------------------
(* Values *)

Dec(n) == [num |-> n, den |-> 1]
NaN == [num |-> 0, den |-> 0]
IsNaN(x) == x.den = 0

None == [none |-> TRUE]
NoValue == [pending |-> TRUE]
EmptyDict == << >>
EmptyDF == << >>
Unknown == [sector |-> "Unknown", industry |-> "Unknown"]

Return(v) == [raised |-> FALSE, value |-> v]
Raise == [raised |-> TRUE, value |-> None]

Tickers == {"AAA", "BBB", "CCC"}

RECURSIVE SeqsUpTo(_, _)
SeqsUpTo(S, n) ==
    IF n = 0 THEN {<< >>}
    ELSE LET shorter == SeqsUpTo(S, n - 1)
         IN  shorter \cup {Append(s, x) : s \in {t \in shorter : Len(t) = n - 1}, x \in S}

TickerLists == SeqsUpTo(Tickers, MaxTickers)

-----------------------------------------------------------------------------
(* The sector database file *)

\* a JSON object: one well-formed entry, one under a lower-case key, and one
\* entry without an "industry" field
SectorDb ==
    ("AAA" :> [sector |-> "Technology", industry |-> "Software"])
    @@ ("bbb" :> [sector |-> "Energy", industry |-> "Oil"])
    @@ ("CCC" :> [sector |-> "Financials"])

Files ==
    {[kind |-> "missing", json |-> EmptyDict],
     [kind |-> "permission_denied", json |-> EmptyDict],
     [kind |-> "invalid_json", json |-> EmptyDict],
     [kind |-> "ok", json |-> SectorDb]}

\* _load_sector_database: open() raises FileNotFoundError or PermissionError,
\* json.load raises JSONDecodeError; only FileNotFoundError is handled.
LoadSectorDatabase(f) ==
    CASE f.kind = "ok" -> Return(f.json)
      [] f.kind = "missing" -> Return(EmptyDict)
      [] OTHER -> Raise

\* faulty variant: the stored entry is never used
GetSectorInfo_AlwaysUnknown(db, ticker) == Unknown

\* get_sector_info
GetSectorInfo(db, ticker) ==
    IF ticker \in DOMAIN db THEN db[ticker] ELSE Unknown

-----------------------------------------------------------------------------
(* The provider's answers to YahooFinance/get_stock_chart *)

QuoteResponses ==
    {[kind |-> "raise", price |-> NaN],
     [kind |-> "none", price |-> NaN],
     [kind |-> "no_meta", price |-> NaN],
     [kind |-> "no_price", price |-> NaN],
     [kind |-> "ok", price |-> Dec(77)]}

\* get_stock_price
StockPriceBody(resp) ==
    CASE resp.kind = "raise" -> Raise
      [] resp.kind = "none" -> Return(Dec(0))
      [] resp.kind = "no_meta" -> Raise
      [] resp.kind = "no_price" -> Return(Dec(0))
      [] OTHER -> Return(resp.price)

GetStockPrice(resp) ==
    LET body == StockPriceBody(resp)
    IN  IF body.raised THEN Return(Dec(0)) ELSE body

CloseAt(shape, k) ==
    IF shape = "ramp" THEN 100 + k ELSE 100 + ((7 * k) % 5)

VolumeAt(k) == 1000 + k

\* n daily bars; bar nc has a null close and bar nv a null volume (0: none)
Bars(n, shape, nc, nv) ==
    [k \in 1..n |->
        [Close |-> IF k = nc THEN NaN ELSE Dec(CloseAt(shape, k)),
         Volume |-> IF k = nv THEN NaN ELSE Dec(VolumeAt(k))]]

NullPositions(n) == {0} \cup ({1, n - 1, n} \cap (1..n))

ChartFailures ==
    {[kind |-> k, bars |-> EmptyDF] :
        k \in {"raise", "none", "no_chart", "null_result", "no_timestamp",
               "length_mismatch"}}

\* every answer the summary is checked against
ChartResponses ==
    ChartFailures \cup
    UNION {{[kind |-> "ok", bars |-> Bars(n, shape, nc, nv)] :
                shape \in {"ramp", "zigzag"},
                nc \in NullPositions(n), nv \in NullPositions(n)} :
           n \in 0..MaxBars}

\* the answers a batch is run against
BatchChartResponses ==
    {[kind |-> "raise", bars |-> EmptyDF],
     [kind |-> "no_chart", bars |-> EmptyDF],
     [kind |-> "length_mismatch", bars |-> EmptyDF],
     [kind |-> "ok", bars |-> Bars(0, "ramp", 0, 0)],
     [kind |-> "ok", bars |-> Bars(2, "ramp", 0, 0)],
     [kind |-> "ok", bars |-> Bars(2, "ramp", 0, 2)]}

\* get_historical_data
HistoricalDataBody(resp) ==
    CASE resp.kind = "raise" -> Raise
      [] resp.kind \in {"none", "no_chart"} -> Return(EmptyDF)
      [] resp.kind \in {"null_result", "no_timestamp", "length_mismatch"} -> Raise
      [] OTHER -> Return(resp.bars)

GetHistoricalData(resp) ==
    LET body == HistoricalDataBody(resp)
    IN  IF body.raised THEN Return(EmptyDF) ELSE body

-----------------------------------------------------------------------------
(* get_stock_info *)

Empty(df) == Len(df) = 0

Closes(df) == [k \in 1..Len(df) |-> df[k].Close]

\* Series.tail(k)
TailN(s, k) == IF Len(s) <= k THEN s ELSE SubSeq(s, Len(s) - k + 1, Len(s))

RECURSIVE SeqSum(_)
SeqSum(s) == IF s = << >> THEN 0 ELSE Head(s).num + SeqSum(Tail(s))

\* Series.mean(): null entries are skipped
Mean(s) ==
    LET vals == SelectSeq(s, LAMBDA x : ~IsNaN(x))
    IN  IF vals = << >> THEN NaN ELSE [num |-> SeqSum(vals), den |-> Len(vals)]

\* faulty variant: a short history is averaged over the bars there are
MovingAverage_Partial(df, window, latest_close) ==
    Mean(TailN(Closes(df), window))

MovingAverage(df, window, latest_close) ==
    IF Len(df) >= window THEN Mean(TailN(Closes(df), window)) ELSE latest_close

\* faulty variant: the quote is reported as the price
LatestClose_Quote(df, price) == price

\* hist_df['Close'].iloc[-1] if not hist_df.empty else price
LatestClose(df, price) == IF ~Empty(df) THEN df[Len(df)].Close ELSE price

\* int(volume)
IntOf(x) == IF IsNaN(x) THEN Raise ELSE Return(x.num \div x.den)

\* sector_info[key]
Item(d, key) == IF key \in DOMAIN d THEN Return(d[key]) ELSE Raise

\* the try block of get_stock_info, with the DataFrame it worked on
StockInfoBody(db, ticker, quote, chart) ==
    LET price == GetStockPrice(quote)
        sector_info == GetSectorInfo(db, ticker)
        hist == GetHistoricalData(chart)
    IN  IF price.raised \/ hist.raised THEN Raise
        ELSE IF Empty(hist.value) THEN Return(None)
        ELSE LET df == hist.value
                 latest_close == LatestClose(df, price.value)
                 volume == IF ~Empty(df) THEN df[Len(df)].Volume ELSE Dec(0)
                 ma20 == MovingAverage(df, Ma20Window, latest_close)
                 ma50 == MovingAverage(df, Ma50Window, latest_close)
                 sector == Item(sector_info, "sector")
                 industry == Item(sector_info, "industry")
                 vol == IntOf(volume)
             IN  IF sector.raised \/ industry.raised \/ vol.raised THEN Raise
                 ELSE Return([ticker |-> ticker,
                              price |-> latest_close,
                              sector |-> sector.value,
                              industry |-> industry.value,
                              volume |-> vol.value,
                              ma20 |-> ma20,
                              ma50 |-> ma50,
                              historical_data |-> df])

\* faulty variant: no except clause around the derivation
GetStockInfo_NoCatch(db, ticker, quote, chart) ==
    StockInfoBody(db, ticker, quote, chart)

GetStockInfo(db, ticker, quote, chart) ==
    LET body == StockInfoBody(db, ticker, quote, chart)
    IN  IF body.raised THEN Return(None) ELSE body

\* faulty variant: the result is appended without the test
Truthy_Always(x) == TRUE

\* truth value of get_stock_info's result: None is false, the summary dict is true
Truthy(x) == x # None

-----------------------------------------------------------------------------
(* Construction *)

Init ==
    /\ file \in Files
    /\ phase = "new"
    /\ sector_database = EmptyDict
    /\ cache = EmptyDict
    /\ pc = "idle"
    /\ tickers = << >>
    /\ progress_callback = FALSE
    /\ i = 0
    /\ results = << >>
    /\ call = [op |-> "none", ticker |-> ""]
    /\ ret = NoValue
    /\ hist_df = EmptyDF
    /\ events = << >>
    /\ progress_calls = << >>
    /\ outcomes = << >>

\* ReliableStockLoader.__init__
Construct ==
    /\ phase = "new"
    /\ LET db == LoadSectorDatabase(file)
       IN  IF db.raised
           THEN /\ phase' = "ctor_failed"
                /\ UNCHANGED loader
           ELSE /\ phase' = "ready"
                /\ sector_database' = db.value
                /\ cache' = EmptyDict
    /\ call' = [op |-> "__init__", ticker |-> ""]
    /\ UNCHANGED <<file, batch, ret, hist_df, logs>>

-----------------------------------------------------------------------------
(* Single calls.  The caller is single-threaded: a call starts only when    *)
(* no other call is in progress.                                            *)

CanCall == phase = "ready" /\ pc = "idle"

\* a new call: the previous call's frame and what was observed of it are gone
NoBatch ==
    /\ tickers' = << >>
    /\ progress_callback' = FALSE
    /\ i' = 0
    /\ results' = << >>
    /\ pc' = "idle"

ClearLogs ==
    /\ events' = << >>
    /\ progress_calls' = << >>
    /\ outcomes' = << >>

CallGetSectorInfo(ticker) ==
    /\ CanCall
    /\ call' = [op |-> "get_sector_info", ticker |-> ticker]
    /\ ret' = GetSectorInfo(sector_database, ticker)
    /\ hist_df' = EmptyDF
    /\ NoBatch
    /\ ClearLogs
    /\ UNCHANGED <<file, phase, loader>>

CallGetStockPrice(ticker, quote) ==
    /\ CanCall
    /\ call' = [op |-> "get_stock_price", ticker |-> ticker]
    /\ ret' = GetStockPrice(quote).value
    /\ hist_df' = EmptyDF
    /\ NoBatch
    /\ ClearLogs
    /\ UNCHANGED <<file, phase, loader>>

CallGetHistoricalData(ticker, chart) ==
    /\ CanCall
    /\ call' = [op |-> "get_historical_data", ticker |-> ticker]
    /\ ret' = GetHistoricalData(chart).value
    /\ hist_df' = EmptyDF
    /\ NoBatch
    /\ ClearLogs
    /\ UNCHANGED <<file, phase, loader>>

\* faulty variant: the summary is stored in self.cache
CallGetStockInfo_Caching(ticker, quote, chart) ==
    /\ CanCall
    /\ call' = [op |-> "get_stock_info", ticker |-> ticker]
    /\ ret' = GetStockInfo(sector_database, ticker, quote, chart).value
    /\ hist_df' = GetHistoricalData(chart).value
    /\ cache' = (ticker :> ret')
    /\ NoBatch
    /\ ClearLogs
    /\ UNCHANGED <<file, phase, sector_database>>

CallGetStockInfo(ticker, quote, chart) ==
    /\ CanCall
    /\ call' = [op |-> "get_stock_info", ticker |-> ticker]
    /\ ret' = GetStockInfo(sector_database, ticker, quote, chart).value
    /\ hist_df' = GetHistoricalData(chart).value
    /\ NoBatch
    /\ ClearLogs
    /\ UNCHANGED <<file, phase, loader>>

-----------------------------------------------------------------------------
(* load_multiple_stocks, one step per statement of the loop body *)

\* faulty variant: the callback receives the 0-based index
ProgressArgs_ZeroBased(index, total, ticker) == <<index, total, ticker>>

\* progress_callback(i + 1, total, ticker)
ProgressArgs(index, total, ticker) == <<index + 1, total, ticker>>

StartBatch(tks, cb) ==
    /\ CanCall
    /\ call' = [op |-> "load_multiple_stocks", ticker |-> ""]
    /\ tickers' = tks
    /\ progress_callback' = cb
    /\ i' = 0
    /\ results' = << >>
    /\ pc' = "loop"
    /\ ret' = NoValue
    /\ hist_df' = EmptyDF
    /\ ClearLogs
    /\ UNCHANGED <<file, phase, loader>>

\* for i, ticker in enumerate(tickers): if progress_callback: progress_callback(...)
BatchProgress ==
    /\ pc = "loop"
    /\ i < Len(tickers)
    /\ IF progress_callback
       THEN /\ progress_calls' = Append(progress_calls,
                                        ProgressArgs(i, Len(tickers), tickers[i + 1]))
            /\ events' = Append(events, <<"progress", i + 1>>)
       ELSE UNCHANGED <<progress_calls, events>>
    /\ pc' = "summarize"
    /\ UNCHANGED <<file, phase, loader, tickers, progress_callback, i, results,
                   call, ret, hist_df, outcomes>>

\* stock_info = self.get_stock_info(ticker); if stock_info: results.append(stock_info)
BatchSummarize(quote, chart) ==
    /\ pc = "summarize"
    /\ LET r == GetStockInfo(sector_database, tickers[i + 1], quote, chart)
       IN  IF r.raised
           THEN /\ pc' = "raised"
                /\ UNCHANGED <<results, outcomes, hist_df>>
           ELSE /\ pc' = "sleep"
                /\ results' = IF Truthy(r.value) THEN Append(results, r.value)
                              ELSE results
                /\ outcomes' = Append(outcomes, r.value)
                /\ hist_df' = GetHistoricalData(chart).value
    /\ events' = Append(events, <<"summarize", i + 1>>)
    /\ UNCHANGED <<file, phase, loader, tickers, progress_callback, i, call, ret,
                   progress_calls>>

\* faulty variant: the delay sits inside "if stock_info:"
BatchSleep_OnlyOnSuccess ==
    /\ pc = "sleep"
    /\ events' = IF Truthy(outcomes[i + 1]) THEN Append(events, <<"delay", i + 1>>)
                 ELSE events
    /\ i' = i + 1
    /\ pc' = "loop"
    /\ UNCHANGED <<file, phase, loader, tickers, progress_callback, results, call,
                   ret, hist_df, progress_calls, outcomes>>

\* time.sleep(0.1)
BatchSleep ==
    /\ pc = "sleep"
    /\ events' = Append(events, <<"delay", i + 1>>)
    /\ i' = i + 1
    /\ pc' = "loop"
    /\ UNCHANGED <<file, phase, loader, tickers, progress_callback, results, call,
                   ret, hist_df, progress_calls, outcomes>>

\* return results
BatchReturn ==
    /\ pc = "loop"
    /\ i = Len(tickers)
    /\ ret' = results
    /\ pc' = "idle"
    /\ UNCHANGED <<file, phase, loader, tickers, progress_callback, i, results,
                   call, hist_df, logs>>

-----------------------------------------------------------------------------
(* Specifications *)

Next ==
    \/ Construct
    \/ \E t \in Tickers : CallGetSectorInfo(t)
    \/ \E t \in Tickers, q \in QuoteResponses : CallGetStockPrice(t, q)
    \/ \E t \in Tickers, c \in BatchChartResponses : CallGetHistoricalData(t, c)
    \/ \E t \in Tickers, q \in QuoteResponses, c \in BatchChartResponses :
          CallGetStockInfo(t, q, c)
    \/ \E tks \in TickerLists, cb \in BOOLEAN : StartBatch(tks, cb)
    \/ BatchProgress
    \/ \E q \in QuoteResponses, c \in BatchChartResponses : BatchSummarize(q, c)
    \/ BatchSleep
    \/ BatchReturn

Spec == Init /\ [][Next]_vars

\* get_stock_info as a function of its inputs: one call on a fresh loader,
\* against every provider answer
FirstGetStockInfo ==
    /\ call.op = "__init__"
    /\ \E t \in Tickers, q \in QuoteResponses, c \in ChartResponses :
          CallGetStockInfo(t, q, c)

NextSummary ==
    \/ Construct
    \/ FirstGetStockInfo

SpecSummary == Init /\ [][NextSummary]_vars

-----------------------------------------------------------------------------
(* Properties *)

BatchCall == call.op = "load_multiple_stocks"
BatchReturned == BatchCall /\ pc = "idle"
SummaryCall == call.op = "get_stock_info"

Present(r) == r # None

TickerFields(s) == [k \in 1..Len(s) |-> s[k].ticker]

\* tks without the positions whose outcome is absent
RECURSIVE WithoutAbsent(_, _)
WithoutAbsent(tks, outs) ==
    IF tks = << >> THEN << >>
    ELSE (IF Present(Head(outs)) THEN <<Head(tks)>> ELSE << >>)
         \o WithoutAbsent(Tail(tks), Tail(outs))

\* C1: a returned batch holds exactly the summaries of the positions whose
\* get_stock_info result was present, in input order: the ticker fields of the
\* output are the input list with the absent positions removed, so the output
\* is never longer than the input.
C1_OutputIsPresentSummaries ==
    BatchReturned =>
        /\ Len(outcomes) = Len(tickers)
        /\ ret = SelectSeq(outcomes, Present)
        /\ TickerFields(ret) = WithoutAbsent(tickers, outcomes)
        /\ Len(ret) <= Len(tickers)

C1_Witness ==
    /\ BatchReturned
    /\ tickers = <<"AAA", "BBB", "CCC">>
    /\ ~Present(outcomes[2])
    /\ TickerFields(ret) = <<"AAA", "CCC">>

\* callbacks made so far in the running batch
CallbacksDue == IF pc \in {"summarize", "sleep"} THEN i + 1 ELSE i

\* C2: with a callback supplied, the k-th invocation carries
\* (k, len(tickers), tickers[k-1]) for k = 1, 2, ... in increasing order, a
\* returned batch has made exactly len(tickers) invocations (none for an empty
\* list), and every summarize attempt is preceded by the invocation for the
\* same position, whether or not the summary turns out absent.
C2_ProgressCallback ==
    (BatchCall /\ progress_callback) =>
        /\ Len(progress_calls) = CallbacksDue
        /\ \A k \in 1..Len(progress_calls) :
              progress_calls[k] = <<k, Len(tickers), tickers[k]>>
        /\ pc = "idle" => Len(progress_calls) = Len(tickers)
        /\ \A j \in 1..Len(events) :
              events[j][1] = "summarize" =>
                  \E h \in 1..(j - 1) : events[h] = <<"progress", events[j][2]>>

C2_Witness ==
    /\ BatchReturned
    /\ progress_callback
    /\ Len(tickers) = MaxTickers
    /\ ~Present(outcomes[2])
    /\ progress_calls[MaxTickers] = <<MaxTickers, MaxTickers, tickers[MaxTickers]>>

\* C3: get_stock_info returns None if and only if get_historical_data
\* returned an empty DataFrame, whatever the bar values and the sector entry.
C3_AbsentIffEmptyHistory ==
    SummaryCall => (~Present(ret) <=> Empty(hist_df))

BatchStepEnabled ==
    \/ ENABLED BatchProgress
    \/ ENABLED (\E q \in QuoteResponses, c \in BatchChartResponses : BatchSummarize(q, c))
    \/ ENABLED BatchSleep
    \/ ENABLED BatchReturn

\* C4: no failure of a single ticker ends a batch: no exception leaves
\* get_stock_info, a running batch can always take its next step, a returned
\* batch has attempted every position, and a failed position is only missing
\* from the output.
C4_NoFailureEndsBatch ==
    /\ pc # "raised"
    /\ pc # "idle" => BatchStepEnabled
    /\ BatchReturned =>
          /\ Len(outcomes) = Len(tickers)
          /\ Len(ret) = Cardinality({k \in 1..Len(outcomes) : Present(outcomes[k])})
          /\ \A k \in 1..Len(outcomes) :
                Present(outcomes[k]) => \E j \in 1..Len(ret) : ret[j] = outcomes[k]

\* the first ticker failed while its summary was derived from a non-empty
\* history, and the batch has gone on to the second ticker
C4_Witness ==
    /\ BatchCall
    /\ pc = "summarize"
    /\ i = 1
    /\ Len(outcomes) = 1
    /\ ~Present(outcomes[1])
    /\ ~Empty(hist_df)

RECURSIVE SumOver(_, _)
SumOver(df, idx) ==
    IF idx = {} THEN 0
    ELSE LET k == CHOOSE x \in idx : TRUE
         IN  df[k].Close.num + SumOver(df, idx \ {k})

\* ma is the arithmetic mean of the closes of the last min(Len(df), w) bars
\* (null closes are left out, as Series.mean does)
IsTrailingMean(ma, df, w) ==
    LET idx == {k \in 1..Len(df) : k > Len(df) - w /\ ~IsNaN(df[k].Close)}
    IN  IF idx = {} THEN IsNaN(ma)
        ELSE ~IsNaN(ma) /\ ma.num * Cardinality(idx) = SumOver(df, idx) * ma.den

LastBar(df) == df[Len(df)]

ReturnedSummary == SummaryCall /\ Present(ret)

NoNullClose(df) == \A k \in 1..Len(df) : ~IsNaN(df[k].Close)

\* C5 as stated, on histories without null closes: for a history of n bars,
\* ma20 is the mean of the last min(n, 20) closes, and ma50 the mean of the
\* last min(n, 50) closes.
C5_ShortHistoryAveraged ==
    (ReturnedSummary /\ NoNullClose(ret.historical_data)) =>
        /\ IsTrailingMean(ret.ma20, ret.historical_data, Ma20Window)
        /\ IsTrailingMean(ret.ma50, ret.historical_data, Ma50Window)

\* C5 amended: ma20 is the mean of exactly the last 20 closes when the history
\* has at least 20 bars and the latest close otherwise; ma50 likewise with 50.
C5_FullWindowOrLatestClose ==
    ReturnedSummary =>
        LET df == ret.historical_data
        IN  /\ Len(df) >= Ma20Window => IsTrailingMean(ret.ma20, df, Ma20Window)
            /\ Len(df) < Ma20Window => ret.ma20 = LastBar(df).Close
            /\ Len(df) >= Ma50Window => IsTrailingMean(ret.ma50, df, Ma50Window)
            /\ Len(df) < Ma50Window => ret.ma50 = LastBar(df).Close

\* a short history whose latest close differs from the mean of its closes
C5_Witness ==
    /\ ReturnedSummary
    /\ Len(ret.historical_data) = Ma20Window - 1
    /\ ret.ma20 = LastBar(ret.historical_data).Close
    /\ ~IsTrailingMean(ret.ma20, ret.historical_data, Ma20Window)

\* C6: in every summary, price is the Close of the last bar of its own
\* historical_data, volume is the Volume of that bar, and for N in {20, 50}
\* maN is the mean of the trailing N closes when at least N bars exist and
\* exactly the latest close otherwise.
C6_SummaryInvariant ==
    ReturnedSummary =>
        LET df == ret.historical_data
        IN  /\ df = hist_df
            /\ Len(df) > 0
            /\ ret.price = LastBar(df).Close
            /\ ~IsNaN(LastBar(df).Volume)
            /\ ret.volume = LastBar(df).Volume.num
            /\ \A w \in {Ma20Window, Ma50Window} :
                  LET ma == IF w = Ma20Window THEN ret.ma20 ELSE ret.ma50
                  IN  IF Len(df) >= w THEN IsTrailingMean(ma, df, w)
                      ELSE ma = ret.price

\* both windows are full and neither average is the latest close
C6_Witness ==
    /\ ReturnedSummary
    /\ Len(ret.historical_data) > Ma50Window
    /\ ret.price = LastBar(ret.historical_data).Close
    /\ ret.ma20 # ret.price
    /\ ret.ma50 # ret.price
    /\ ret.ma20 # ret.ma50

Unreadable == {"missing", "permission_denied", "invalid_json"}

\* C7: with the file absent or unreadable, construction completes with an
\* empty mapping and every ticker resolves to Unknown.
C7_LoadNeverFails ==
    (phase # "new" /\ file.kind \in Unreadable) =>
        /\ phase = "ready"
        /\ sector_database = EmptyDict
        /\ \A t \in Tickers : GetSectorInfo(sector_database, t) = Unknown

StoredOrUnknown(t) ==
    IF t \in DOMAIN sector_database THEN sector_database[t] ELSE Unknown

SectorFieldsMatch(r) ==
    Present(r) =>
        /\ r.sector = StoredOrUnknown(r.ticker).sector
        /\ r.industry = StoredOrUnknown(r.ticker).industry

\* C8: get_sector_info returns the stored entry for a ticker that is a key
\* of the mapping (exact, case-sensitive match) and Unknown/Unknown for any
\* other, and the sector and industry of every summary are those of
\* get_sector_info for its ticker.
C8_SectorLookup ==
    /\ call.op = "get_sector_info" => ret = StoredOrUnknown(call.ticker)
    /\ SummaryCall => SectorFieldsMatch(ret)
    /\ BatchCall => \A k \in 1..Len(outcomes) : SectorFieldsMatch(outcomes[k])

C8_Witness ==
    /\ ReturnedSummary
    /\ sector_database = SectorDb
    /\ ret.ticker = "AAA"
    /\ ret.sector = "Technology"
    /\ ret.industry = "Software"

LoadedAtConstruction == LoadSectorDatabase(file).value

SameSectorFields(a, b) ==
    (Present(a) /\ Present(b) /\ a.ticker = b.ticker) =>
        (a.sector = b.sector /\ a.industry = b.industry)

\* C9: after construction no call changes the loader: sector_database keeps
\* the value loaded at construction and cache stays empty, in every state and
\* across every step; and two summaries of the same ticker, within a batch or
\* from successive calls, carry the same sector and industry.
C9_LoaderUnchanged ==
    /\ [](phase = "ready" =>
            /\ sector_database = LoadedAtConstruction
            /\ cache = EmptyDict
            /\ BatchCall => \A j, k \in 1..Len(outcomes) :
                               SameSectorFields(outcomes[j], outcomes[k]))
    /\ [][phase = "ready" =>
            /\ sector_database' = sector_database
            /\ cache' = cache
            /\ (SummaryCall /\ SummaryCall') => SameSectorFields(ret, ret')]_vars

\* one batch summarized the same ticker twice
C9_Witness ==
    /\ BatchReturned
    /\ sector_database = SectorDb
    /\ cache = EmptyDict
    /\ Len(ret) = 2
    /\ ret[1].ticker = ret[2].ticker
    /\ ret[1].sector = "Technology"

EventsOf(k, cb) ==
    (IF cb THEN <<<<"progress", k>>>> ELSE << >>)
    \o <<<<"summarize", k>>, <<"delay", k>>>>

RECURSIVE EventsUpTo(_, _)
EventsUpTo(n, cb) ==
    IF n = 0 THEN << >> ELSE EventsUpTo(n - 1, cb) \o EventsOf(n, cb)

\* C10: the batch is strictly sequential: the events of a batch are, position
\* by position, progress (when a callback is supplied), summarize, delay; no
\* position starts before the previous delay; a returned batch of n tickers
\* has made exactly n delays and one summarize attempt per position.
C10_SequentialWithDelay ==
    BatchCall =>
        LET all == EventsUpTo(Len(tickers), progress_callback)
        IN  /\ Len(events) <= Len(all)
            /\ events = SubSeq(all, 1, Len(events))
            /\ pc = "idle" => events = all

\* a returned batch whose second position was absent and still delayed
C10_Witness ==
    /\ BatchReturned
    /\ Len(tickers) = MaxTickers
    /\ ~Present(outcomes[2])
    /\ Cardinality({j \in 1..Len(events) : events[j][1] = "delay"}) = MaxTickers
    /\ \E j \in 1..Len(events) : events[j] = <<"delay", 2>>

====
